---- MODULE Spec2Model ----
(***************************************************************************)
(* GlassBallots ai-service: the proposal analysis pipeline                 *)
(* (analyst.py, ProposalAnalyst) and the two HTTP handlers that drive it   *)
(* (app.py, analyze_proposal and analyze_batch).                           *)
(*                                                                         *)
(* A Python str is a sequence of one-character strings.  Where only the    *)
(* length of a proposal text matters (the 50 / 50,000 bounds of app.py) a  *)
(* text carries its length as the three numbers lead, core and trail: the  *)
(* leading whitespace, the part str.strip() keeps, the trailing            *)
(* whitespace.                                                             *)
(***************************************************************************)
EXTENDS Integers, Sequences, FiniteSets, TLC

(***************************************************************************)
(* Characters and the str methods the code calls.                          *)
(***************************************************************************)
UpperCase ==
    <<"A","B","C","D","E","F","G","H","I","J","K","L","M",
      "N","O","P","Q","R","S","T","U","V","W","X","Y","Z">>

LowerCase ==
    <<"a","b","c","d","e","f","g","h","i","j","k","l","m",
      "n","o","p","q","r","s","t","u","v","w","x","y","z">>

Digits == {"0","1","2","3","4","5","6","7","8","9"}

Letters == {UpperCase[i] : i \in DOMAIN UpperCase} \cup {LowerCase[i] : i \in DOMAIN LowerCase}

\* str.isalnum() of one character
IsAlnum(c) == c \in Letters \cup Digits

\* the class \w of the re module
IsWordChar(c) == IsAlnum(c) \/ c = "_"

LowerChar(c) ==
    IF \E i \in DOMAIN UpperCase : UpperCase[i] = c
    THEN LowerCase[CHOOSE i \in DOMAIN UpperCase : UpperCase[i] = c]
    ELSE c

\* str.lower()
Lower(s) == [i \in DOMAIN s |-> LowerChar(s[i])]

RECURSIVE LStripChars(_, _)
\* str.lstrip(chars)
LStripChars(s, chars) ==
    IF s # <<>> /\ Head(s) \in chars THEN LStripChars(Tail(s), chars) ELSE s

RECURSIVE RStripChars(_, _)
RStripChars(s, chars) ==
    IF s # <<>> /\ s[Len(s)] \in chars
    THEN RStripChars(SubSeq(s, 1, Len(s) - 1), chars)
    ELSE s

\* the characters str.strip() removes, of those a text is written with here
Whitespace == {" ", "\n", "\t"}

\* str.strip()
Strip(s) == RStripChars(LStripChars(s, Whitespace), Whitespace)

RECURSIVE SplitFrom(_, _, _)
SplitFrom(s, sep, cur) ==
    IF s = <<>> THEN <<cur>>
    ELSE IF Head(s) = sep THEN <<cur>> \o SplitFrom(Tail(s), sep, <<>>)
    ELSE SplitFrom(Tail(s), sep, Append(cur, Head(s)))

\* str.split(sep) for a one-character separator
Split(s, sep) == SplitFrom(s, sep, <<>>)

RECURSIVE Join(_)
\* "".join(parts)
Join(parts) == IF parts = <<>> THEN <<>> ELSE Head(parts) \o Join(Tail(parts))

(***************************************************************************)
(* The fixed vocabularies (class attributes of ProposalAnalyst).           *)
(***************************************************************************)
LOADED_WORDS ==
    << <<"d","i","s","a","s","t","r","o","u","s">>,
       <<"u","n","p","r","e","c","e","d","e","n","t","e","d">>,
       <<"c","l","e","a","r","l","y">>,
       <<"o","b","v","i","o","u","s","l","y">>,
       <<"e","v","e","r","y","o","n","e"," ","k","n","o","w","s">>,
       <<"w","i","t","h","o","u","t"," ","a"," ","d","o","u","b","t">>,
       <<"t","e","r","r","i","b","l","e">>,
       <<"p","e","r","f","e","c","t">>,
       <<"a","b","s","o","l","u","t","e","l","y">>,
       <<"c","a","t","a","s","t","r","o","p","h","i","c">>,
       <<"r","e","v","o","l","u","t","i","o","n","a","r","y">>,
       <<"g","a","m","e","-","c","h","a","n","g","i","n","g">>,
       <<"u","n","d","e","n","i","a","b","l","e">>,
       <<"i","r","r","e","f","u","t","a","b","l","e">>,
       <<"c","e","r","t","a","i","n","l","y">>,
       <<"i","n","e","v","i","t","a","b","l","y">> >>

STAKEHOLDER_GROUPS ==
    << <<"c","o","m","m","u","t","e","r"," ","s","t","u","d","e","n","t","s">>,
       <<"i","n","t","e","r","n","a","t","i","o","n","a","l"," ","s","t","u","d","e","n","t","s">>,
       <<"a","d","j","u","n","c","t"," ","f","a","c","u","l","t","y">>,
       <<"f","u","l","l","-","t","i","m","e"," ","f","a","c","u","l","t","y">>,
       <<"p","a","r","t","-","t","i","m","e"," ","s","t","u","d","e","n","t","s">>,
       <<"g","r","a","d","u","a","t","e"," ","s","t","u","d","e","n","t","s">>,
       <<"u","n","d","e","r","g","r","a","d","u","a","t","e"," ","s","t","u","d","e","n","t","s">>,
       <<"a","d","m","i","n","i","s","t","r","a","t","i","v","e"," ","s","t","a","f","f">>,
       <<"s","u","p","p","o","r","t"," ","s","t","a","f","f">>,
       <<"d","i","s","a","b","l","e","d"," ","s","t","u","d","e","n","t","s">>,
       <<"m","i","n","o","r","i","t","y"," ","s","t","u","d","e","n","t","s">>,
       <<"l","o","w","-","i","n","c","o","m","e"," ","s","t","u","d","e","n","t","s">>,
       <<"l","o","c","a","l"," ","c","o","m","m","u","n","i","t","y">>,
       <<"a","l","u","m","n","i">>,
       <<"p","a","r","e","n","t","s">> >>

(***************************************************************************)
(* Stages 1 and 2: the lexical scanners.                                   *)
(***************************************************************************)
\* whether position k of text (1-based) holds a \w character; a position
\* outside the text holds none
IsWordAt(text, k) == k \in DOMAIN text /\ IsWordChar(text[k])

\* the assertion \b of the re module at the gap after the first p characters
WordBoundary(text, p) == IsWordAt(text, p) # IsWordAt(text, p + 1)

ReSearchNoBoundary(word, text) ==
    \E p \in 0..(Len(text) - Len(word)) :
        SubSeq(text, p + 1, p + Len(word)) = word

\* re.search(r'\b' + re.escape(word) + r'\b', text): re.escape makes every
\* character of word match itself
ReSearch(word, text) ==
    \E p \in 0..(Len(text) - Len(word)) :
        /\ WordBoundary(text, p)
        /\ SubSeq(text, p + 1, p + Len(word)) = word
        /\ WordBoundary(text, p + Len(word))

\* the for loop of both scanners: append, in vocabulary order, each word found
ScanVocabulary(vocabulary, text_lower) ==
    SelectSeq(vocabulary, LAMBDA word : ReSearch(word, text_lower))

find_loaded_language(text) == ScanVocabulary(LOADED_WORDS, Lower(text))

find_stakeholders(text) == ScanVocabulary(STAKEHOLDER_GROUPS, Lower(text))

(***************************************************************************)
(* Stage 3: parsing the model's numbered list of equity concerns.          *)
(***************************************************************************)
\* the bullet character U+2022, written by its code point
Bullet == "U+2022"

\* the argument of lstrip in _get_unspoken_concerns
EnumerationChars == Digits \cup {".", "-", ")", Bullet, " "}

\* the list comprehension at the end of _get_unspoken_concerns
ParseConcerns(content) ==
    LET lines == Split(Strip(content), "\n")
        kept  == SelectSeq(lines, LAMBDA line :
                     /\ Strip(line) # <<>>
                     /\ \E k \in DOMAIN line : IsAlnum(line[k]))
    IN  [k \in DOMAIN kept |-> Strip(LStripChars(Strip(kept[k]), EnumerationChars))]

(***************************************************************************)
(* Python values.  None, numbers and containers are records tagged with    *)
(* their type; a JSON text is a record saying whether it parses, how it is *)
(* laid out and which value it denotes.                                    *)
(***************************************************************************)
None == [type |-> "NoneType"]

Number == [type |-> "int"]

\* a proposal text: lead spaces, then words, then fill times ".", then trail
\* spaces
Text(lead, words, fill, trail) ==
    [type |-> "str", lead |-> lead, words |-> words, fill |-> fill, trail |-> trail]

\* len(text)
PyLen(t) == t.lead + Len(t.words) + t.fill + t.trail

\* len(text.strip()); words never starts or ends with whitespace
StripLen(t) == Len(t.words) + t.fill

\* bool(value), as in "not proposal_text"
Truthy(v) ==
    CASE v.type = "str"      -> PyLen(v) > 0
      [] v.type = "NoneType" -> FALSE
      [] OTHER               -> TRUE

\* the keys of the ObjectiveFacts object the extractor's prompt asks for
RequiredKeys ==
    {"main_objective", "key_actions", "quantitative_data", "cost", "timeline",
     "target_groups", "resources_required"}

JsonObject(keys, data) == [type |-> "dict", keys |-> keys, data |-> data]

JsonArray == [type |-> "list", keys |-> {}, data |-> "empty"]

JsonText(layout, value) == [type |-> "str", valid |-> TRUE, layout |-> layout, value |-> value]

NotJson == [type |-> "str", valid |-> FALSE, layout |-> "none", value |-> None]

\* json.dumps(value, indent=2)
json_dumps(value) == JsonText("indent2", value)

\* json.loads(s) raises json.JSONDecodeError, a subclass of ValueError, on a
\* text that is not JSON
json_loads_raises(s) == ~s.valid

json_loads(s) == s.value

\* the exception classes that are ValueError or a subclass of it
IsValueError(exc) == exc \in {"ValueError", "JSONDecodeError"}

(***************************************************************************)
(* Program constants of app.py and the bounds of the model.                *)
(***************************************************************************)
MinTextLength == 50

MaxTextLength == 50000

MaxBatchSize == 10

\* the most leading and the most trailing spaces of a request's text
MaxPad == 1

\* the longest batch whose items are drawn freely
MaxItems == 2

\* the most pieces a scanned text is put together from
MaxPieces == 3

\* the most lines of a response given to the concerns parser
MaxLines == 2

(***************************************************************************)
(* The requests a client may send.                                         *)
(***************************************************************************)
W1 == <<"C","l","e","a","r","l","y"," ","a","l","u","m","n","i">>

W2 == <<"p","a","r","e","n","t","s">>

TextWords == {W1, W2}

\* the lengths, after strip(), on both sides of the two bounds
CoreLengths ==
    {MinTextLength - 1, MinTextLength, MaxTextLength - 1, MaxTextLength,
     MaxTextLength + 1}

StringTexts ==
    {Text(l, w, c - Len(w), t) :
        l \in 0..MaxPad, t \in 0..MaxPad, w \in TextWords, c \in CoreLengths}
    \cup {Text(l, <<>>, 0, 0) : l \in 0..MaxPad}

Dict(keys, id, text) == [type |-> "dict", keys |-> keys, id |-> id, text |-> text]

\* a str given as a batch item: keys are the substrings that "in" finds in it
StrItem(keys) == [type |-> "str", keys |-> keys, id |-> None, text |-> None]

Id(k) == [type |-> "int", value |-> k]

SingleRequests ==
    {[endpoint |-> "analyze", is_json |-> FALSE, data |-> None],
     [endpoint |-> "analyze", is_json |-> TRUE, data |-> Number],
     [endpoint |-> "analyze", is_json |-> TRUE, data |-> Dict({}, None, None)]}
    \cup {[endpoint |-> "analyze", is_json |-> TRUE, data |-> Dict({"text"}, None, t)] :
            t \in StringTexts \cup {None, Number}}

\* the texts of batch items: one within the bounds, one too short, one
\* not a string
BatchTexts == {Text(0, W1, MinTextLength - Len(W1), 0), Text(0, W2, 0, 0), Number}

\* the items that cannot start a pipeline run that calls the model
InertItemsAt(k) == {Dict({"id"}, Id(k), None), Dict({"id", "text"}, Id(k), Number)}

ItemsAt(k) ==
    {Number, StrItem({}), StrItem({"id", "text"}),
     Dict({"text"}, None, Text(0, W2, 0, 0))}
    \cup InertItemsAt(k)
    \cup {Dict({"id", "text"}, Id(k), t) : t \in BatchTexts}

ShortBatches ==
    UNION {{s \in [1..n -> UNION {ItemsAt(k) : k \in 1..n}] :
                \A k \in 1..n : s[k] \in ItemsAt(k)} : n \in 0..MaxItems}

\* batches at the size limit and one beyond it: one free item, then inert ones
LongBatches ==
    {[k \in 1..n |-> IF k = 1 THEN first
                     ELSE IF inert = 1 THEN Dict({"id"}, Id(k), None)
                     ELSE Dict({"id", "text"}, Id(k), Number)] :
        n \in {MaxBatchSize, MaxBatchSize + 1}, first \in ItemsAt(1), inert \in 1..2}

List(items) == [type |-> "list", items |-> items]

BatchData(proposals) == [type |-> "dict", keys |-> {"proposals"}, proposals |-> proposals]

BatchRequests ==
    {[endpoint |-> "analyze/batch", is_json |-> FALSE, data |-> None],
     [endpoint |-> "analyze/batch", is_json |-> TRUE, data |-> Number],
     [endpoint |-> "analyze/batch", is_json |-> TRUE,
      data |-> [type |-> "dict", keys |-> {}, proposals |-> None]],
     [endpoint |-> "analyze/batch", is_json |-> TRUE, data |-> BatchData(Number)]}
    \cup {[endpoint |-> "analyze/batch", is_json |-> TRUE, data |-> BatchData(List(s))] :
            s \in ShortBatches \cup LongBatches}

Requests == SingleRequests \cup BatchRequests

NoRequest == [endpoint |-> "none", is_json |-> FALSE, data |-> None]

(***************************************************************************)
(* What the generative model may answer.  A call raises exc, or returns    *)
(* content (None when the message carries no text).                        *)
(***************************************************************************)
Raises(exc) == [exc |-> exc, content |-> None]

Returns(content) == [exc |-> "none", content |-> content]

\* a str the model returns, by its characters
PyStr(chars) == [type |-> "str", chars |-> chars]

ReturnsNone == [exc |-> "none", content |-> None]

ConcernsResponses ==
    {Raises("APIError"),
     Returns(PyStr(<<"1", ".", " ", "A", "\n", "\n", "-", " ", "b", " ">>))}

FactsContents ==
    {NotJson,
     JsonText("compact", JsonArray),
     JsonText("compact", JsonObject(RequiredKeys, "f1")),
     JsonText("indent2", JsonObject(RequiredKeys, "f2")),
     JsonText("compact", JsonObject(RequiredKeys \cup {"notes"}, "f1")),
     JsonText("compact", JsonObject(RequiredKeys \ {"main_objective"}, "f1"))}

FactsResponses ==
    {Raises("APITimeoutError")} \cup {Returns(c) : c \in FactsContents}

SummaryResponses ==
    {ReturnsNone, Returns(PyStr(<<" ", "S", ".", "\n">>))}

(***************************************************************************)
(* The requests the three model-calling stages send.                       *)
(***************************************************************************)
RECURSIVE JoinWith(_, _)
\* sep.join(parts)
JoinWith(sep, parts) ==
    IF parts = <<>> THEN <<>>
    ELSE IF Len(parts) = 1 THEN Head(parts)
    ELSE Head(parts) \o sep \o JoinWith(sep, Tail(parts))

NoSpecificGroups ==
    <<"n","o"," ","s","p","e","c","i","f","i","c"," ","g","r","o","u","p","s">>

\* _get_unspoken_concerns: the arguments of chat.completions.create
ConcernsRequest(text, found) ==
    [stage |-> "equity_concerns", model |-> "gpt-4o", temperature |-> "0.7",
     max_tokens |-> 500, response_format |-> "text",
     prompt |-> [stakeholders_str |-> IF found # <<>> THEN JoinWith(<<",", " ">>, found)
                                      ELSE NoSpecificGroups,
                 text |-> text]]

\* _extract_objective_facts: the arguments of chat.completions.create
FactsRequest(text) ==
    [stage |-> "objective_facts", model |-> "gpt-4o", temperature |-> "0.1",
     max_tokens |-> 800, response_format |-> "json_object",
     prompt |-> [text |-> text]]

(***************************************************************************)
(* State.                                                                  *)
(***************************************************************************)
VARIABLES
    pc,               \* where the service is: idle, handler, scan, concerns,
                      \* facts, summary, loop, done
    request,          \* the HTTP request being served
    proposal_text,    \* analyze: its argument
    loaded_language,  \* analyze: stage 1's list
    stakeholders,     \* analyze: stage 2's list
    equity_concerns,  \* analyze: stage 3's list
    objective_facts,  \* analyze: stage 4's value
    analysis,         \* what the last call of analyze returned, None if nothing
    i,                \* analyze_batch: the position of the for loop
    results,          \* analyze_batch: the results list
    response,         \* the HTTP response, status 0 while there is none
    model_calls,      \* the requests sent to the model while serving the request,
                      \* each with the text of the run that sent it
    analyze_calls,    \* the arguments analyze was called with while serving it
    raised,           \* the stage and class of the last exception raised
    lex_pieces,       \* scanners alone: the pieces of the text scanned
    lex_flags,        \* scanners alone: _find_loaded_language's list
    lex_groups,       \* scanners alone: _find_stakeholders' list
    lex_done,         \* scanners alone: the scanners that have run
    par_lines,        \* parser alone: the lines of the model's response
    par_concerns,     \* parser alone: the list _get_unspoken_concerns returns
    par_done          \* parser alone: whether the response has been parsed

lex_vars == <<lex_pieces, lex_flags, lex_groups, lex_done>>

run_vars ==
    <<proposal_text, loaded_language, stakeholders, equity_concerns, objective_facts>>

main_vars ==
    <<pc, request, proposal_text, loaded_language, stakeholders, equity_concerns,
      objective_facts, analysis, i, results, response, model_calls, analyze_calls,
      raised>>

parse_vars == <<par_lines, par_concerns, par_done>>

vars == <<main_vars, lex_vars, parse_vars>>

NoResponse == [status |-> 0, body |-> [error |-> "none"]]

NotRaised == [stage |-> "none", exc |-> "none"]

LeakySummaryRequest(facts_json) ==
    [stage |-> "neutral_summary", model |-> "gpt-4o", temperature |-> "0.3",
     max_tokens |-> 300, response_format |-> "text",
     prompt |-> [facts_str |-> json_dumps(facts_json), text |-> proposal_text]]

\* _generate_neutral_summary: the arguments of chat.completions.create
SummaryRequest(facts_json) ==
    [stage |-> "neutral_summary", model |-> "gpt-4o", temperature |-> "0.3",
     max_tokens |-> 300, response_format |-> "text",
     prompt |-> [facts_str |-> json_dumps(facts_json)]]

(***************************************************************************)
(* analyze_proposal and analyze_batch: validation and error reporting.     *)
(***************************************************************************)
TooShortUnstripped(text) == ~Truthy(text) \/ PyLen(text) < MinTextLength

\* app.py line 100
TooShort(text) == ~Truthy(text) \/ StripLen(text) < MinTextLength

\* app.py line 105
TooLong(text) == PyLen(text) > MaxTextLength

BatchTooLargeOffByOne(proposals) == Len(proposals.items) >= MaxBatchSize

\* app.py line 173
BatchTooLarge(proposals) == Len(proposals.items) > MaxBatchSize

\* "key in value" raises TypeError on a value that is no container
InRaises(value) == value.type \in {"int", "NoneType"}

PartialErrorResponse(exc, debug) ==
    [status |-> IF IsValueError(exc) THEN 400 ELSE 500,
     body |-> [success |-> FALSE, error |-> "Internal server error during analysis",
               details |-> IF debug THEN exc ELSE "null",
               loaded_language |-> loaded_language, stakeholders |-> stakeholders]]

\* analyze_proposal's two except clauses
SingleErrorResponse(exc, debug) ==
    IF IsValueError(exc)
    THEN [status |-> 400, body |-> [success |-> FALSE, error |-> exc]]
    ELSE [status |-> 500,
          body |-> [success |-> FALSE, error |-> "Internal server error during analysis",
                    details |-> IF debug THEN exc ELSE "null"]]

\* analyze_batch's outer except clause
BatchErrorResponse ==
    [status |-> 500,
     body |-> [success |-> FALSE, error |-> "Internal server error during batch analysis"]]

BadRequest(message) == [status |-> 400, body |-> [error |-> message]]

\* the handler returns: the response is sent
Respond(r) ==
    /\ response' = r
    /\ pc' = "done"

\* an exception reaches analyze_proposal's except clauses; DEBUG is read from
\* the environment there
SingleExcept(stage, exc) ==
    /\ raised' = [stage |-> stage, exc |-> exc]
    /\ \E debug \in BOOLEAN : Respond(SingleErrorResponse(exc, debug))

\* an exception reaches analyze_batch's outer except clause
BatchExcept(stage, exc) ==
    /\ raised' = [stage |-> stage, exc |-> exc]
    /\ Respond(BatchErrorResponse)

\* analyst.analyze is called: its locals are fresh
CallAnalyze(text) ==
    /\ pc' = "scan"
    /\ proposal_text' = text
    /\ analyze_calls' = analyze_calls \cup {text}
    /\ loaded_language' = <<>>
    /\ stakeholders' = <<>>
    /\ equity_concerns' = <<>>
    /\ objective_facts' = None
    /\ analysis' = None

\* an exception leaves analyst.analyze and reaches the caller's except clause:
\* in analyze_batch the inner one, which records the failure and goes on
Propagate(stage, exc) ==
    /\ analysis' = None
    /\ IF request.endpoint = "analyze"
       THEN /\ SingleExcept(stage, exc)
            /\ UNCHANGED <<i, results>>
       ELSE /\ raised' = [stage |-> stage, exc |-> exc]
            /\ results' = Append(results,
                   [success |-> FALSE, id |-> request.data.proposals.items[i].id,
                    error |-> exc])
            /\ i' = i + 1
            /\ pc' = "loop"
            /\ UNCHANGED response

(***************************************************************************)
(* The service.                                                            *)
(***************************************************************************)
Init ==
    /\ pc = "idle"
    /\ request = NoRequest
    /\ proposal_text = None
    /\ loaded_language = <<>>
    /\ stakeholders = <<>>
    /\ equity_concerns = <<>>
    /\ objective_facts = None
    /\ analysis = None
    /\ i = 0
    /\ results = <<>>
    /\ response = NoResponse
    /\ model_calls = {}
    /\ analyze_calls = {}
    /\ raised = NotRaised
    /\ lex_pieces = <<>>
    /\ lex_flags = <<>>
    /\ lex_groups = <<>>
    /\ lex_done = {}
    /\ par_lines = <<>>
    /\ par_concerns = <<>>
    /\ par_done = FALSE

\* a request arrives
Receive ==
    /\ pc = "idle"
    /\ \E req \in Requests : request' = req
    /\ pc' = "handler"
    /\ UNCHANGED <<run_vars, analysis, i, results, response, model_calls,
                   analyze_calls, raised>>
    /\ UNCHANGED <<lex_vars, parse_vars>>

\* the response is sent and the request is over: nothing of it is kept
Finish ==
    /\ pc = "done"
    /\ pc' = "idle"
    /\ request' = NoRequest
    /\ proposal_text' = None
    /\ loaded_language' = <<>>
    /\ stakeholders' = <<>>
    /\ equity_concerns' = <<>>
    /\ objective_facts' = None
    /\ analysis' = None
    /\ i' = 0
    /\ results' = <<>>
    /\ response' = NoResponse
    /\ model_calls' = {}
    /\ analyze_calls' = {}
    /\ raised' = NotRaised
    /\ UNCHANGED <<lex_vars, parse_vars>>

\* analyze_proposal up to the call of analyst.analyze (app.py lines 82-113)
AnalyzeProposal ==
    /\ pc = "handler"
    /\ request.endpoint = "analyze"
    /\ LET data == request.data
           idle == UNCHANGED <<run_vars, analysis, model_calls, analyze_calls>>
       IN  IF ~request.is_json
           THEN /\ Respond(BadRequest("Content-Type must be application/json"))
                /\ idle /\ UNCHANGED raised
           ELSE IF InRaises(data)
           THEN SingleExcept("handler", "TypeError") /\ idle
           ELSE IF "text" \notin data.keys
           THEN /\ Respond(BadRequest("Missing required field: text"))
                /\ idle /\ UNCHANGED raised
           ELSE IF Truthy(data.text) /\ data.text.type # "str"
           THEN \* proposal_text.strip() on a value that is no str
                SingleExcept("handler", "AttributeError") /\ idle
           ELSE IF TooShort(data.text)
           THEN /\ Respond(BadRequest("Proposal text must be at least 50 characters long"))
                /\ idle /\ UNCHANGED raised
           ELSE IF TooLong(data.text)
           THEN /\ Respond(BadRequest("Proposal text must be less than 50,000 characters"))
                /\ idle /\ UNCHANGED raised
           ELSE /\ CallAnalyze(data.text)
                /\ UNCHANGED <<response, model_calls, raised>>
    /\ UNCHANGED <<request, i, results>>
    /\ UNCHANGED <<lex_vars, parse_vars>>

\* analyze_batch up to its for loop (app.py lines 160-178)
AnalyzeBatch ==
    /\ pc = "handler"
    /\ request.endpoint = "analyze/batch"
    /\ LET data == request.data
       IN  IF ~request.is_json
           THEN /\ Respond(BadRequest("Content-Type must be application/json"))
                /\ UNCHANGED <<raised, i, results>>
           ELSE IF InRaises(data)
           THEN BatchExcept("handler", "TypeError") /\ UNCHANGED <<i, results>>
           ELSE IF "proposals" \notin data.keys \/ data.proposals.type # "list"
           THEN /\ Respond(BadRequest("Missing or invalid field: proposals (must be an array)"))
                /\ UNCHANGED <<raised, i, results>>
           ELSE IF BatchTooLarge(data.proposals)
           THEN /\ Respond(BadRequest("Maximum 10 proposals per batch request"))
                /\ UNCHANGED <<raised, i, results>>
           ELSE /\ pc' = "loop"
                /\ i' = 1
                /\ results' = <<>>
                /\ UNCHANGED <<response, raised>>
    /\ UNCHANGED <<request, run_vars, analysis, model_calls, analyze_calls>>
    /\ UNCHANGED <<lex_vars, parse_vars>>

\* one turn of analyze_batch's for loop up to the call of analyst.analyze, and
\* the return after the loop (app.py lines 180-189 and 207-210)
BatchItem ==
    /\ pc = "loop"
    /\ LET proposals == request.data.proposals.items
           idle == UNCHANGED <<run_vars, analysis, analyze_calls>>
       IN  IF i > Len(proposals)
           THEN /\ Respond([status |-> 200, body |-> [success |-> TRUE, results |-> results]])
                /\ idle /\ UNCHANGED <<i, results, raised>>
           ELSE LET proposal == proposals[i]
                IN  IF InRaises(proposal)
                    THEN BatchExcept("loop", "TypeError") /\ idle /\ UNCHANGED <<i, results>>
                    ELSE IF "id" \notin proposal.keys \/ "text" \notin proposal.keys
                    THEN /\ results' = Append(results,
                                [success |-> FALSE,
                                 error |-> "Each proposal must have id and text fields"])
                         /\ i' = i + 1
                         /\ idle /\ UNCHANGED <<pc, response, raised>>
                    ELSE IF proposal.type # "dict"
                    THEN \* proposal['text'] raises TypeError inside the try, and
                         \* proposal['id'] raises it again inside the except clause
                         BatchExcept("loop", "TypeError") /\ idle /\ UNCHANGED <<i, results>>
                    ELSE /\ CallAnalyze(proposal.text)
                         /\ UNCHANGED <<i, results, response, raised>>
    /\ UNCHANGED <<request, model_calls>>
    /\ UNCHANGED <<lex_vars, parse_vars>>

(***************************************************************************)
(* ProposalAnalyst.analyze, stage by stage.                                *)
(***************************************************************************)
\* the characters of a text in which a vocabulary word can occur: the padding
\* around them is spaces and ".", none of them \w, so that \b holds where the
\* words meet the padding exactly as it does at the ends of a text
Content(text) == text.words

\* the model is called: the request is recorded with the text of the run and
\* the facts the run has extracted (None before stage 4)
Call(req) ==
    model_calls' = model_calls \cup
        {[text |-> proposal_text, facts |-> objective_facts, request |-> req]}

\* what analyze returns (analyst.py lines 296-304)
AnalysisResult(neutral_summary) ==
    [type |-> "dict",
     neutral_summary |-> neutral_summary,
     bias_report |-> [loaded_language_flags |-> loaded_language,
                      stakeholders_mentioned |-> stakeholders,
                      questions_for_consideration |-> equity_concerns],
     objective_facts |-> objective_facts]

\* the fields both handlers copy out of analyze's result
ResultBody(a) ==
    [success |-> TRUE,
     summary |-> a.neutral_summary,
     loaded_language |-> a.bias_report.loaded_language_flags,
     stakeholders |-> a.bias_report.stakeholders_mentioned,
     equity_concerns |-> a.bias_report.questions_for_consideration,
     objective_facts |-> a.objective_facts]

\* stages 1 and 2 (analyst.py lines 282-285); text.lower() raises
\* AttributeError on a value that is no str
FindLexical ==
    /\ pc = "scan"
    /\ IF proposal_text.type # "str"
       THEN /\ Propagate("loaded_language", "AttributeError")
            /\ UNCHANGED <<loaded_language, stakeholders>>
       ELSE /\ loaded_language' = find_loaded_language(Content(proposal_text))
            /\ stakeholders' = find_stakeholders(Content(proposal_text))
            /\ pc' = "concerns"
            /\ UNCHANGED <<analysis, i, results, response, raised>>
    /\ UNCHANGED <<request, proposal_text, equity_concerns, objective_facts,
                   model_calls, analyze_calls>>
    /\ UNCHANGED <<lex_vars, parse_vars>>

\* stage 3 (analyst.py line 288)
GetUnspokenConcerns ==
    /\ pc = "concerns"
    /\ Call(ConcernsRequest(proposal_text, stakeholders))
    /\ \E r \in ConcernsResponses :
        IF r.exc # "none"
        THEN Propagate("equity_concerns", r.exc) /\ UNCHANGED equity_concerns
        ELSE IF r.content.type = "NoneType"
        THEN Propagate("equity_concerns", "AttributeError") /\ UNCHANGED equity_concerns
        ELSE /\ equity_concerns' = ParseConcerns(r.content.chars)
             /\ pc' = "facts"
             /\ UNCHANGED <<analysis, i, results, response, raised>>
    /\ UNCHANGED <<request, proposal_text, loaded_language, stakeholders,
                   objective_facts, analyze_calls>>
    /\ UNCHANGED <<lex_vars, parse_vars>>

\* stage 4 (analyst.py line 291)
ExtractObjectiveFacts ==
    /\ pc = "facts"
    /\ Call(FactsRequest(proposal_text))
    /\ \E r \in FactsResponses :
        IF r.exc # "none"
        THEN Propagate("objective_facts", r.exc) /\ UNCHANGED objective_facts
        ELSE IF r.content.type = "NoneType"
        THEN Propagate("objective_facts", "AttributeError") /\ UNCHANGED objective_facts
        ELSE IF json_loads_raises(r.content)
        THEN Propagate("objective_facts", "JSONDecodeError") /\ UNCHANGED objective_facts
        ELSE /\ objective_facts' = json_loads(r.content)
             /\ pc' = "summary"
             /\ UNCHANGED <<analysis, i, results, response, raised>>
    /\ UNCHANGED <<request, proposal_text, loaded_language, stakeholders,
                   equity_concerns, analyze_calls>>
    /\ UNCHANGED <<lex_vars, parse_vars>>

\* stage 5 and the return to the handler (analyst.py lines 294-304, app.py
\* lines 115-126 and 190-198)
GenerateNeutralSummary ==
    /\ pc = "summary"
    /\ Call(SummaryRequest(objective_facts))
    /\ \E r \in SummaryResponses :
        IF r.exc # "none"
        THEN Propagate("neutral_summary", r.exc)
        ELSE IF r.content.type = "NoneType"
        THEN Propagate("neutral_summary", "AttributeError")
        ELSE LET a == AnalysisResult(Strip(r.content.chars))
             IN  /\ analysis' = a
                 /\ UNCHANGED raised
                 /\ IF request.endpoint = "analyze"
                    THEN /\ Respond([status |-> 200, body |-> ResultBody(a)])
                         /\ UNCHANGED <<i, results>>
                    ELSE /\ results' = Append(results,
                                [id |-> request.data.proposals.items[i].id]
                                    @@ ResultBody(a))
                         /\ i' = i + 1
                         /\ pc' = "loop"
                         /\ UNCHANGED response
    /\ UNCHANGED <<request, run_vars, analyze_calls>>
    /\ UNCHANGED <<lex_vars, parse_vars>>

Next ==
    \/ Receive
    \/ AnalyzeProposal
    \/ AnalyzeBatch
    \/ BatchItem
    \/ FindLexical
    \/ GetUnspokenConcerns
    \/ ExtractObjectiveFacts
    \/ GenerateNeutralSummary
    \/ Finish

Spec == Init /\ [][Next]_vars

(***************************************************************************)
(* The scanners on their own: a text is put together from pieces, and the  *)
(* two scanners run on it in either order.                                 *)
(***************************************************************************)
LexPieces ==
    {<<" ">>,
     <<"l","y">>,
     <<"D","i","s","a","s","t","r","o","u","s">>,
     <<"c","l","e","a","r","l","y">>,
     <<"e","v","e","r","y","o","n","e"," ","k","n","o","w","s">>,
     <<"A","l","u","m","n","i">>,
     <<"p","a","r","e","n","t","s">>}

LexTexts == UNION {[1..n -> LexPieces] : n \in 0..MaxPieces}

InitLex ==
    /\ pc = "idle"
    /\ request = NoRequest
    /\ proposal_text = None
    /\ loaded_language = <<>>
    /\ stakeholders = <<>>
    /\ equity_concerns = <<>>
    /\ objective_facts = None
    /\ analysis = None
    /\ i = 0
    /\ results = <<>>
    /\ response = NoResponse
    /\ model_calls = {}
    /\ analyze_calls = {}
    /\ raised = NotRaised
    /\ lex_pieces \in LexTexts
    /\ lex_flags = <<>>
    /\ lex_groups = <<>>
    /\ lex_done = {}
    /\ par_lines = <<>>
    /\ par_concerns = <<>>
    /\ par_done = FALSE

\* _find_loaded_language(text)
ScanLoadedLanguage ==
    /\ "loaded_language" \notin lex_done
    /\ lex_flags' = find_loaded_language(Join(lex_pieces))
    /\ lex_done' = lex_done \cup {"loaded_language"}
    /\ UNCHANGED <<lex_pieces, lex_groups, main_vars, parse_vars>>

\* _find_stakeholders(text)
ScanStakeholders ==
    /\ "stakeholders" \notin lex_done
    /\ lex_groups' = find_stakeholders(Join(lex_pieces))
    /\ lex_done' = lex_done \cup {"stakeholders"}
    /\ UNCHANGED <<lex_pieces, lex_flags, main_vars, parse_vars>>

NextLex ==
    \/ ScanLoadedLanguage
    \/ ScanStakeholders

SpecLex == InitLex /\ [][NextLex]_vars

(***************************************************************************)
(* Properties.                                                             *)
(***************************************************************************)
SingleRequest == request.endpoint = "analyze"

\* a batch request whose body is an object with a proposals list
BatchOfList ==
    /\ request.endpoint = "analyze/batch"
    /\ request.is_json
    /\ request.data.type = "dict"
    /\ "proposals" \in request.data.keys
    /\ request.data.proposals.type = "list"

Proposals == request.data.proposals.items

\* a single-proposal request that carries a text that is a string
HasStringText ==
    /\ SingleRequest
    /\ request.is_json
    /\ request.data.type = "dict"
    /\ "text" \in request.data.keys
    /\ request.data.text.type = "str"

Handled == pc \notin {"idle", "handler"}

SummaryCalls == {c \in model_calls : c.request.stage = "neutral_summary"}

ModelStages == <<"equity_concerns", "objective_facts", "neutral_summary">>

StageIndex(stage) == CHOOSE k \in DOMAIN ModelStages : ModelStages[k] = stage

ResultFields ==
    {"summary", "loaded_language", "stakeholders", "equity_concerns", "objective_facts"}

SizeError == "Maximum 10 proposals per batch request"

\* C1: the request the summarizer sends is made of the facts the extractor
\* returned in the same run and of nothing else: whenever two runs of analyze
\* (on whatever texts) extracted the same facts, their summarizer requests
\* are identical, and the facts in a summarizer request parse back to the
\* facts of its run.
C1_SummarizerSeesOnlyFacts ==
    /\ \A a \in SummaryCalls : \A b \in SummaryCalls :
            a.facts = b.facts => a.request = b.request
    /\ \A a \in SummaryCalls : json_loads(a.request.prompt.facts_str) = a.facts

\* two runs on different texts whose extracted facts are the same have both
\* called the summarizer
C1_Witness ==
    \E a \in SummaryCalls : \E b \in SummaryCalls :
        a.text # b.text /\ a.facts = b.facts

\* C2: a batch of at most 10 elements, whatever the elements are, is answered
\* with 200 and one result per element.
C2_BatchNeverAborts ==
    (BatchOfList /\ Len(Proposals) <= MaxBatchSize /\ pc = "done")
        => /\ response.status = 200
           /\ Len(response.body.results) = Len(Proposals)

\* C3: every failure outcome in results carries the id of its input item,
\* whenever the item supplied one.
C3_FailuresCarryId ==
    (BatchOfList /\ pc \in {"loop", "done"})
        => \A k \in DOMAIN results :
              (/\ ~results[k].success
               /\ Proposals[k].type = "dict"
               /\ "id" \in Proposals[k].keys)
                  => /\ "id" \in DOMAIN results[k]
                     /\ results[k].id = Proposals[k].id

\* C4: whatever the extractor returns, and so whatever the summarizer is sent,
\* is a JSON object with every required key.
C4_IncompleteFactsRejected ==
    /\ objective_facts # None
          => objective_facts.type = "dict" /\ RequiredKeys \subseteq objective_facts.keys
    /\ \A c \in SummaryCalls :
          c.facts.type = "dict" /\ RequiredKeys \subseteq c.facts.keys

\* the input validation errors of the single-proposal endpoint: no JSON body,
\* no text field, a text that is empty, too short or too long
InvalidSingleInput ==
    /\ SingleRequest
    /\ \/ ~request.is_json
       \/ request.data.type = "dict" /\ "text" \notin request.data.keys
       \/ HasStringText /\ (TooShort(request.data.text) \/ TooLong(request.data.text))

\* C5: on the single-proposal endpoint a failure of a model-calling stage is
\* answered with 500 and the analysis-failure message, never with 400; and
\* an input validation error is answered with 400.
C5_FailureKindsKeptApart ==
    (SingleRequest /\ pc = "done")
        => /\ raised.stage \in {ModelStages[k] : k \in DOMAIN ModelStages}
                => /\ response.status = 500
                   /\ response.body.error = "Internal server error during analysis"
           /\ InvalidSingleInput => response.status = 400

\* C6 as stated: a string text is accepted (analyze is run on it) exactly when
\* its length is between 50 and 50,000, whatever its characters.
C6_AcceptedIffLengthInBounds ==
    (HasStringText /\ Handled)
        => ((request.data.text \in analyze_calls)
              <=> (PyLen(request.data.text) \in MinTextLength..MaxTextLength))

\* C6 as amended: a string text is accepted exactly when at least 50 characters
\* remain after leading and trailing whitespace is stripped and the whole text,
\* whitespace included, has at most 50,000 characters; so a text of 49
\* characters and one of 50,001 are rejected whatever their characters.
C6_AcceptedIffStrippedLengthInBounds ==
    (HasStringText /\ Handled)
        => LET t == request.data.text
           IN  /\ (t \in analyze_calls)
                     <=> /\ Len(t.words) + t.fill >= 50
                         /\ t.lead + Len(t.words) + t.fill + t.trail <= 50000
               /\ PyLen(t) = 49 => t \notin analyze_calls
               /\ PyLen(t) = 50001 => t \notin analyze_calls
               /\ (PyLen(t) = 50 /\ t.lead + t.trail = 0) => t \in analyze_calls

\* a text of exactly 50 characters, one of them a leading space, was rejected
C6_Witness ==
    /\ HasStringText
    /\ pc = "done"
    /\ PyLen(request.data.text) = 50
    /\ request.data.text.lead = 1
    /\ response.status = 400
    /\ analyze_calls = {}

\* C7: a batch of more than 10 elements is answered with the size error
\* without analyze or the model having been called and without any result; a
\* batch of exactly 10 elements is not answered with the size error and its
\* loop is entered.
C7_OversizedBatchRejectedFirst ==
    (BatchOfList /\ Handled)
        => /\ Len(Proposals) > 10
                => /\ pc = "done"
                   /\ response = BadRequest(SizeError)
                   /\ analyze_calls = {}
                   /\ model_calls = {}
                   /\ results = <<>>
           /\ Len(Proposals) = 10
                => /\ response # BadRequest(SizeError)
                   /\ i >= 1

\* a batch of 11 elements has been answered
C7_Witness ==
    /\ BatchOfList
    /\ Len(Proposals) = 11
    /\ pc = "done"
    /\ response.status = 400

\* C8: on the single-proposal endpoint, once a model-calling stage has raised,
\* the request is over, analyze has returned nothing, no later stage has
\* called the model, and the response is an error without any result field.
C8_NoPartialResult ==
    (SingleRequest /\ raised.stage \in {ModelStages[k] : k \in DOMAIN ModelStages})
        => /\ pc = "done"
           /\ analysis = None
           /\ \A c \in model_calls :
                 StageIndex(c.request.stage) <= StageIndex(raised.stage)
           /\ response.status \in {400, 500}
           /\ DOMAIN response.body \cap ResultFields = {}

\* the fact extractor raised after stages 1 to 3 had produced their lists
C8_Witness ==
    /\ SingleRequest
    /\ pc = "done"
    /\ raised.stage = "objective_facts"
    /\ loaded_language # <<>>
    /\ stakeholders # <<>>
    /\ equity_concerns # <<>>

\* C10: analyze is only ever run, and the model only ever called, on a text
\* that is a string of 50 to 50,000 characters.
C10_OnlyBoundedTextsAnalyzed ==
    /\ \A t \in analyze_calls :
          t.type = "str" /\ PyLen(t) \in MinTextLength..MaxTextLength
    /\ \A c \in model_calls :
          c.text.type = "str" /\ PyLen(c.text) \in MinTextLength..MaxTextLength

\* the text the scanners were given
LexText == Join(lex_pieces)

\* term occurs in text, in any case, with no \w character right before it and
\* none right after it
OccursAsWholeWord(term, text) ==
    \E p \in 1..Len(text) :
        /\ p + Len(term) - 1 <= Len(text)
        /\ Lower(SubSeq(text, p, p + Len(term) - 1)) = term
        /\ p = 1 \/ ~IsWordChar(text[p - 1])
        /\ p + Len(term) - 1 = Len(text) \/ ~IsWordChar(text[p + Len(term)])

\* list holds exactly the terms of vocabulary that occur in text as whole
\* words, each once, in the order of vocabulary
ExactlyTheTermsFound(list, vocabulary, text) ==
    /\ \A k \in DOMAIN vocabulary :
          OccursAsWholeWord(vocabulary[k], text)
              <=> \E j \in DOMAIN list : list[j] = vocabulary[k]
    /\ \E pos \in [DOMAIN list -> DOMAIN vocabulary] :
          /\ \A j \in DOMAIN list : vocabulary[pos[j]] = list[j]
          /\ \A j \in DOMAIN list : \A h \in DOMAIN list : j < h => pos[j] < pos[h]

\* pieces with every piece that is a term of vocabulary (in any case) replaced
\* by the word other
WithTermsReplaced(pieces, vocabulary, other) ==
    [k \in DOMAIN pieces |->
        IF \E v \in DOMAIN vocabulary : vocabulary[v] = Lower(pieces[k])
        THEN other ELSE pieces[k]]

OtherWord == <<"w","o","r","d">>

\* C9: each scanner returns exactly the terms of its vocabulary that occur in
\* the text (case-insensitively) as a whole word or phrase, each once and in
\* vocabulary order; a term inside a longer word is not returned; and the list
\* of one scanner is the same when the terms of the other vocabulary are
\* taken out of the text.
C9_ScannersExact ==
    /\ "loaded_language" \in lex_done
          => /\ ExactlyTheTermsFound(lex_flags, LOADED_WORDS, LexText)
             /\ lex_flags = find_loaded_language(
                    Join(WithTermsReplaced(lex_pieces, STAKEHOLDER_GROUPS, OtherWord)))
    /\ "stakeholders" \in lex_done
          => /\ ExactlyTheTermsFound(lex_groups, STAKEHOLDER_GROUPS, LexText)
             /\ lex_groups = find_stakeholders(
                    Join(WithTermsReplaced(lex_pieces, LOADED_WORDS, OtherWord)))

\* both scanners have run on "clearly Disastrous": both terms are flagged,
\* in the order of the vocabulary, not of the text
C9_Witness ==
    /\ lex_done = {"loaded_language", "stakeholders"}
    /\ lex_pieces = <<<<"c","l","e","a","r","l","y">>, <<" ">>,
                      <<"D","i","s","a","s","t","r","o","u","s">>>>
    /\ lex_flags = <<LOADED_WORDS[1], LOADED_WORDS[3]>>
    /\ lex_groups = <<>>

(***************************************************************************)
(* The concerns parser on its own: the model's response is a list of       *)
(* lines, each an enumeration marker followed by the text of a concern.    *)
(***************************************************************************)
\* the ways the model may mark a line of its list: not at all, "1. ", "2) ",
\* "- ", an indented dash, a bullet
Markers ==
    {<<>>, <<"1", ".", " ">>, <<"2", ")", " ">>, <<"-", " ">>,
     <<" ", " ", "-", " ">>, <<Bullet, " ">>}

\* what may follow the marker: nothing, "A b", "3 c", "?"
Bodies == {<<>>, <<"A", " ", "b">>, <<"3", " ", "c">>, <<"?">>}

ResponseLine(marker, body) == [marker |-> marker, body |-> body]

ResponseLines == {ResponseLine(m, b) : m \in Markers, b \in Bodies}

\* the content of the model's message: the lines joined by "\n"
ResponseText(lines) ==
    JoinWith(<<"\n">>, [k \in DOMAIN lines |-> lines[k].marker \o lines[k].body])

InitParse ==
    /\ pc = "idle"
    /\ request = NoRequest
    /\ proposal_text = None
    /\ loaded_language = <<>>
    /\ stakeholders = <<>>
    /\ equity_concerns = <<>>
    /\ objective_facts = None
    /\ analysis = None
    /\ i = 0
    /\ results = <<>>
    /\ response = NoResponse
    /\ model_calls = {}
    /\ analyze_calls = {}
    /\ raised = NotRaised
    /\ lex_pieces = <<>>
    /\ lex_flags = <<>>
    /\ lex_groups = <<>>
    /\ lex_done = {}
    /\ par_lines \in UNION {[1..n -> ResponseLines] : n \in 0..MaxLines}
    /\ par_concerns = <<>>
    /\ par_done = FALSE

\* _get_unspoken_concerns after the model has answered (analyst.py lines
\* 149-156)
ParseResponse ==
    /\ ~par_done
    /\ par_concerns' = ParseConcerns(ResponseText(par_lines))
    /\ par_done' = TRUE
    /\ UNCHANGED <<par_lines, main_vars, lex_vars>>

NextParse == ParseResponse

SpecParse == InitParse /\ [][NextParse]_vars

\* whether a concern's text has alphanumeric content
HasAlnum(chars) == \E k \in DOMAIN chars : IsAlnum(chars[k])

\* the concerns of a response: the text after the marker of each line whose
\* text has alphanumeric content, in the order of the lines
ConcernsOf(lines) ==
    LET kept == SelectSeq(lines, LAMBDA line : HasAlnum(line.body))
    IN  [k \in DOMAIN kept |-> Strip(kept[k].body)]

\* C11: the list holds one entry per line with alphanumeric content besides
\* its marker, in the order of the lines, each entry the line without its
\* marker and the whitespace around it, the concern's own text (leading
\* digits included) intact; no entry is the empty string.
C11_ConcernsAreTheLinesWithoutMarkers ==
    par_done
        => /\ par_concerns = ConcernsOf(par_lines)
           /\ \A k \in DOMAIN par_concerns : par_concerns[k] # <<>>
====
